---- MODULE Spec2Model ----
(***************************************************************************)
(* A model of the decoder-only transformer of compyute-transformer:        *)
(*   src/experiments/transformer_s.py  (variant "s": cached functions)     *)
(*   src/experiments/transformer.py    (variant "c": backward closures)    *)
(*                                                                         *)
(* and of the training loops that drive it:                                *)
(*   src/training_shakespeare.py                          (loop "plain")   *)
(*   src/experiments/shakespeare/training_shakespeare.py  (loop "accum")   *)
(*                                                                         *)
(* Five specifications share the module:                                   *)
(*   SpecCtor  construction of MultiHeadAttention / TransformerBlock /     *)
(*             Transformer, one constructor step per action                *)
(*   SpecFwd   one forward pass in detail: shapes, the additive mask and   *)
(*             the positions every output position depends on              *)
(*   Spec      the life of one constructed model: mode switches, forward,  *)
(*             backward, optimizer step and gradient reset                 *)
(*   SpecPos   construction, forward and backward of PositionalEncoding    *)
(*   SpecTrain the training loop, one model or optimizer call per action   *)
(* Each specification holds the variables of the others at rest.           *)
(***************************************************************************)
EXTENDS Integers, Sequences, FiniteSets, TLC

VARIABLES
    \* ---- construction (SpecCtor)
    c_cfg,      \* arguments of the constructor call in progress
    c_stack,    \* the __init__ frames in progress, outermost first
    c_pc,       \* position inside the innermost frame
    c_blk,      \* number of TransformerBlocks already built
    c_objs,     \* module state created so far: <<block, module, field>>
    c_err,      \* the exception raised, "none" if none
    c_ret,      \* what the constructor call returned, "none" if nothing yet
    \* ---- one forward pass in detail (SpecFwd)
    f_cfg,      \* configuration the model was constructed with
    f_mask,     \* the mask buffer the attention modules retained
    f_out,      \* what the last call computed
    \* ---- the life of one constructed model (Spec)
    m_cfg,      \* variant, dropout_p and value retention of the model
    m_training, \* the mode flag of the model and all its children
    m_tok_w,    \* the parameter token_emb.w refers to
    m_head_w,   \* the parameter lm_head.w refers to
    m_grad,     \* gradient buffer of every parameter
    m_val,      \* number of optimizer updates applied to every parameter
    m_tback,    \* Transformer._backward (variant "c"): <<>> or <<closure>>
    m_lib,      \* forward state the library layers around the blocks hold
    m_mha,      \* per block, the state of its MultiHeadAttention
    m_pending,  \* id of the training forward no backward has consumed, 0 if none
    m_calls,    \* number of forward and backward calls made so far
    m_last,     \* the last call and what it did
    \* ---- PositionalEncoding (SpecPos)
    p_cfg,      \* max_seq_len and embedding_dim of the constructor call
    p_pc,       \* position inside __init__, "built" once it has returned
    p_table,    \* the encodings tensor: per column what it holds and its writes
    p_err,      \* the exception raised, "none" if none
    p_out,      \* what the last forward or backward call returned
    \* ---- the training loop (SpecTrain)
    t_cfg,      \* the script and its settings
    t_pc,       \* position inside the loop, "done" once it has ended
    t_step,     \* step
    t_accum_step, \* accum_step
    t_batch,    \* batches of train_dl() consumed in the running epoch
    t_val_batch, \* batches of val_dl() consumed in the running validation
    t_mode,     \* mode of the model: "training" or "inference"
    t_updates,  \* optim.step() calls made
    t_pairs,    \* forward/backward pairs run since the last optim.step()
    t_grads,    \* backward calls accumulated in the gradients since their reset
    t_last      \* the last call on the model or the optimizer

ctorVars == <<c_cfg, c_stack, c_pc, c_blk, c_objs, c_err, c_ret>>
fwdVars == <<f_cfg, f_mask, f_out>>
lifeVars == <<m_cfg, m_training, m_tok_w, m_head_w, m_grad, m_val, m_tback, m_lib,
              m_mha, m_pending, m_calls, m_last>>

posVars == <<p_cfg, p_pc, p_table, p_err, p_out>>
trainVars == <<t_cfg, t_pc, t_step, t_accum_step, t_batch, t_val_batch, t_mode,
               t_updates, t_pairs, t_grads, t_last>>

vars == <<ctorVars, fwdVars, lifeVars, posVars, trainVars>>

\* what each specification leaves at rest
ctorRest == <<fwdVars, lifeVars, posVars, trainVars>>
fwdRest == <<ctorVars, lifeVars, posVars, trainVars>>
lifeRest == <<ctorVars, fwdVars, posVars, trainVars>>
posRest == <<ctorVars, fwdVars, lifeVars, trainVars>>
trainRest == <<ctorVars, fwdVars, lifeVars, posVars>>

Variants == {"s", "c"}

(***************************************************************************)
(* Bounds of the model.                                                    *)
(***************************************************************************)
MaxChannels == 4
MaxHeads == 3
MaxBlocks == 2
MaxSeq == 3
MaxBatch == 2
VocabSize == 5
LifeBlocks == 2
LifeHeads == 2
MaxCalls == 3
MaxSteps == 1
MaxIter == 3
MaxAccum == 2
MaxBatches == 3
MaxValBatches == 2
MaxInterval == 2

(***************************************************************************)
(* Tensors of the forward pass.  A shape is a sequence of axis lengths;     *)
(* BadShape stands for the shape error the tensor library raises.  A        *)
(* matrix is a sequence of rows.                                            *)
(***************************************************************************)
NegInf == -1000
FfwdFactor == 4
BadShape == <<-1>>
MaskNone == <<>>

Min(a, b) == IF a < b THEN a ELSE b
Max(a, b) == IF a < b THEN b ELSE a

RECURSIVE SumSeq(_)
SumSeq(s) == IF s = <<>> THEN 0 ELSE s[1] + SumSeq(Tail(s))

\* numpy broadcasting of two shapes, right-aligned
BroadcastShape(a, b) ==
    IF a = BadShape \/ b = BadShape THEN BadShape
    ELSE LET n == Max(Len(a), Len(b))
             da(i) == IF i > n - Len(a) THEN a[i - (n - Len(a))] ELSE 1
             db(i) == IF i > n - Len(b) THEN b[i - (n - Len(b))] ELSE 1
         IN IF \A i \in 1..n : da(i) = db(i) \/ da(i) = 1 \/ db(i) = 1
               THEN [i \in 1..n |-> Max(da(i), db(i))]
               ELSE BadShape

\* x += y: the result must fit the left operand
InplaceAddShape(a, b) == IF BroadcastShape(a, b) = a THEN a ELSE BadShape

\* Embedding(n, dim)(idx): one row of width dim per index
EmbeddingShape(idx, dim) == IF idx = BadShape THEN BadShape ELSE idx \o <<dim>>

\* Linear(in, out)(x)
LinearShape(x, in, out) ==
    IF x = BadShape \/ Len(x) = 0 THEN BadShape
    ELSE IF x[Len(x)] # in THEN BadShape
    ELSE [x EXCEPT ![Len(x)] = out]

\* x.T: the last two axes swapped
TransposeShape(x) ==
    IF x = BadShape \/ Len(x) < 2 THEN BadShape
    ELSE [x EXCEPT ![Len(x)] = x[Len(x) - 1], ![Len(x) - 1] = x[Len(x)]]

\* a @ b on tensors of equal rank >= 2 (or b of rank 2)
MatmulShape(a, b) ==
    IF a = BadShape \/ b = BadShape \/ Len(a) < 2 \/ Len(b) < 2 THEN BadShape
    ELSE IF a[Len(a)] # b[Len(b) - 1] THEN BadShape
    ELSE LET lead == BroadcastShape(SubSeq(a, 1, Len(a) - 2), SubSeq(b, 1, Len(b) - 2))
         IN IF lead = BadShape THEN BadShape
            ELSE lead \o <<a[Len(a) - 1], b[Len(b)]>>

\* split(x, n): n equal chunks along the last axis
SplitShape(x, n) ==
    IF x = BadShape THEN <<BadShape>>
    ELSE IF x[Len(x)] % n # 0 THEN <<BadShape>>
    ELSE [h \in 1..n |-> [x EXCEPT ![Len(x)] = x[Len(x)] \div n]]

\* concat(xs): joined along the last axis
ConcatShape(xs) ==
    IF xs = <<>> \/ \E h \in DOMAIN xs : xs[h] = BadShape THEN BadShape
    ELSE IF \E h \in DOMAIN xs :
               SubSeq(xs[h], 1, Len(xs[h]) - 1) # SubSeq(xs[1], 1, Len(xs[1]) - 1)
         THEN BadShape
    ELSE [xs[1] EXCEPT ![Len(xs[1])] = SumSeq([h \in DOMAIN xs |-> xs[h][Len(xs[h])]])]

\* get_causal_mask((m, m)) = triu(full((m, m), -inf), d=1)
GetCausalMask(m) ==
    [i \in 1..m |-> [j \in 1..m |-> IF j - i >= 1 THEN NegInf ELSE 0]]

\* other additive masks of the documented form (zeros, -inf where masked out)
ZerosMask(m) == [i \in 1..m |-> [j \in 1..m |-> 0]]

\* truth value of a tensor or None, as `not mask` takes it
Truthy(mask) == mask # MaskNone /\ Len(mask) > 0

\* MultiHeadAttention.__init__: self.mask
MhaMaskDropped(v, mask) == MaskNone
MhaMask(v, mask) ==
    IF v = "s" THEN (IF ~Truthy(mask) THEN MaskNone ELSE mask)
               ELSE (IF mask # MaskNone THEN mask ELSE MaskNone)

\* float addition with -inf
AddInf(a, b) == IF a = NegInf \/ b = NegInf THEN NegInf ELSE a + b

\* mask[:seq_len, :seq_len]
MaskSliceTrailing(mask, seq_len) ==
    LET m == Len(mask)
        n == Min(seq_len, m)
    IN [i \in 1..n |-> [j \in 1..n |-> mask[m - n + i][m - n + j]]]
MaskSlice(mask, seq_len) ==
    LET n == Min(seq_len, Len(mask))
    IN [i \in 1..n |-> [j \in 1..n |-> mask[i][j]]]

\* attn_w += bias on a (seq_len, seq_len) score matrix, bias broadcast
AddBias(scores, bias) ==
    LET n == Len(bias)
    IN [i \in DOMAIN scores |-> [j \in DOMAIN scores |->
          AddInf(scores[i][j], bias[IF n = 1 THEN 1 ELSE i][IF n = 1 THEN 1 ELSE j])]]

\* attention weights that softmax leaves non-zero: exp(-inf) = 0
Attends(post, i, j) == post[i][j] # NegInf

\* the scores q @ k.T / sqrt(head_size) of one head, as data gives them
ScoreAt(p, i, j) == CASE p = 1 -> 0 [] p = 2 -> 10 * i + j [] OTHER -> 0 - (i + j)
Scores(p, seq_len) == [i \in 1..seq_len |-> [j \in 1..seq_len |-> ScoreAt(p, i, j)]]
ScorePatterns == 1..3

(***************************************************************************)
(* A tensor of the forward pass: its shape and the pairs <<t, u>> such that *)
(* its value at sequence position t depends on the input at position u.     *)
(***************************************************************************)
Bad(x) == x.shape = BadShape
DepAt(x, t) == {d[2] : d \in {e \in x.dep : e[1] = t}}
Pointwise(x, shape) == [shape |-> shape, dep |-> x.dep]
AddT(x, y) == [shape |-> BroadcastShape(x.shape, y.shape), dep |-> x.dep \cup y.dep]

\* FSDPAttention.forward / scaled_dot_product_attention for one head
SdpAttention(q, k, v, mask, p) ==
    LET seq_len == q.shape[2]
        pre == Scores(p, seq_len)
        qk == MatmulShape(q.shape, TransposeShape(k.shape))
        bias == IF mask # MaskNone THEN MaskSlice(mask, seq_len) ELSE MaskNone
        biasShape == IF mask # MaskNone THEN <<Len(bias), Len(bias)>> ELSE <<>>
        attn == IF mask # MaskNone THEN InplaceAddShape(qk, biasShape) ELSE qk
        post == IF mask # MaskNone /\ attn # BadShape THEN AddBias(pre, bias) ELSE pre
    IN [shape |-> MatmulShape(attn, v.shape),
        dep |-> UNION {{<<ij[1], u>> : u \in DepAt(q, ij[1]) \cup DepAt(k, ij[2])
                                                  \cup DepAt(v, ij[2])} :
                          ij \in {e \in (1..seq_len) \X (1..seq_len) :
                                     Attends(post, e[1], e[2])}},
        pre |-> pre,
        post |-> post]

BadT(x) == [shape |-> BadShape, dep |-> x.dep]

\* LayerNorm((channels,)): over the last axis, position by position
LayerNormT(x, channels) ==
    IF Bad(x) \/ x.shape[Len(x.shape)] # channels THEN BadT(x) ELSE x

LinearT(x, in, out) == Pointwise(x, LinearShape(x.shape, in, out))

\* the rank check of MultiHeadAttention.forward: the ranks that pass
MhaRanksAny == 1..8
MhaRanks == {3}

\* the one element of a singleton: The({F(a) : a \in {e}}) computes e once and
\* names its value a
The(S) == CHOOSE x \in S : TRUE

\* concat of the head outputs and the output projection
MhaMergeT(m, q_heads, heads) ==
    LET y == [shape |-> ConcatShape([h \in DOMAIN q_heads |->
                           (CHOOSE r \in heads : r[1] = h)[2].shape]),
              dep |-> UNION {r[2].dep : r \in heads}]
    IN [out |-> LinearT(y, m.in_channels, m.in_channels),
        split |-> q_heads,
        concat |-> y.shape]

\* MultiHeadAttention.forward on module m = [variant, in_channels, n_heads, mask,
\* dropout_p]; p: the scores the data gives.  A BadShape output: forward raised.
MhaForwardT(m, x, p) ==
    IF Bad(x) \/ Len(x.shape) \notin MhaRanks
    THEN [out |-> BadT(x), split |-> <<>>, concat |-> BadShape]
    ELSE
    LET q == LinearT(x, m.in_channels, m.in_channels)
        k == LinearT(x, m.in_channels, m.in_channels)
        v == LinearT(x, m.in_channels, m.in_channels)
        q_heads == SplitShape(q.shape, m.n_heads)
        k_heads == SplitShape(k.shape, m.n_heads)
        v_heads == SplitShape(v.shape, m.n_heads)
    IN IF q_heads[1] = BadShape
       THEN [out |-> BadT(x), split |-> q_heads, concat |-> BadShape]
       ELSE The({MhaMergeT(m, q_heads, heads) : heads \in
                   {{<<h, SdpAttention(Pointwise(q, q_heads[h]), Pointwise(k, k_heads[h]),
                                       Pointwise(v, v_heads[h]), m.mask, p)>> :
                       h \in DOMAIN q_heads}}})

\* FeedForward.forward: up-projection, activation, down-projection.  In variant
\* "c" the module list is `[lin, act, out_proj] + [drop] if drop is not None
\* else []`: empty when dropout_p = 0.
FeedForwardT(m, x) ==
    IF m.variant = "c" /\ ~(m.dropout_p > 0) THEN x
    ELSE LinearT(LinearT(x, m.in_channels, m.ffwd_channels),
                 m.ffwd_channels, m.in_channels)

\* TransformerBlock.forward, second residual: x1 + ffwd(ln_2(x1))
BlockFfwdT(m, x1, a) ==
    [out |-> AddT(x1, FeedForwardT(m, LayerNormT(x1, m.in_channels))),
     split |-> a.split, concat |-> a.concat]

\* TransformerBlock.forward, first residual: x + attn(ln_1(x))
BlockAttnT(m, x, a) == The({BlockFfwdT(m, x1, a) : x1 \in {AddT(x, a.out)}})

\* TransformerBlock.forward: the two pre-norm residuals
BlockForwardT(m, x, p) ==
    The({BlockAttnT(m, x, a) : a \in {MhaForwardT(m, LayerNormT(x, m.in_channels), p)}})

\* `for block in self.blocks: x = block(x)`, r: the blocks before this one
BlocksStepT(m, r, p) ==
    The({[out |-> b.out, splits |-> Append(r.splits, b.split),
          concats |-> Append(r.concats, b.concat)] :
            b \in {BlockForwardT(m, r.out, p)}})

RECURSIVE BlocksForwardT(_, _, _, _)
BlocksForwardT(m, x, p, n) ==
    IF n = 0 THEN [out |-> x, splits |-> <<>>, concats |-> <<>>]
    ELSE The({BlocksStepT(m, r, p) : r \in {BlocksForwardT(m, x, p, n - 1)}})

\* rows of the positional embedding table
PosEmbRows(cfg) == IF cfg.variant = "s" THEN cfg.max_seq_len ELSE cfg.n_embeddings

\* the positions Transformer.forward looks up: self.pos[:, :S] / arange(S)
PosIndices(cfg, seq_len) ==
    IF cfg.variant = "s" THEN 0..(Min(seq_len, cfg.max_seq_len) - 1)
                         ELSE 0..(seq_len - 1)
PosShape(cfg, seq_len) ==
    IF cfg.variant = "s" THEN <<1, Min(seq_len, cfg.max_seq_len)>> ELSE <<seq_len>>

\* Embedding(rows, dim)(idx): an index outside the table raises
EmbeddingLookupShape(idxShape, indices, rows, dim) ==
    IF \E i \in indices : i >= rows THEN BadShape ELSE EmbeddingShape(idxShape, dim)

\* the module one block of the model is built from
BlockModule(cfg, mask) ==
    [variant |-> cfg.variant, in_channels |-> cfg.embedding_dim,
     n_heads |-> cfg.n_heads, mask |-> mask, dropout_p |-> cfg.dropout_p,
     ffwd_channels |-> FfwdFactor * cfg.embedding_dim]

\* Transformer.__init__: lm_head = Linear(embedding_dim, n_embeddings)
LmHeadChannelsSquare(cfg) == <<cfg.embedding_dim, cfg.embedding_dim>>
LmHeadChannels(cfg) == <<cfg.embedding_dim, cfg.n_embeddings>>

\* Transformer.forward: lm_head(ln(x)) on the output r of the blocks
TransformerHeadT(cfg, r, batch, seq_len) ==
    LET y == LinearT(LayerNormT(r.out, cfg.embedding_dim),
                     LmHeadChannels(cfg)[1], LmHeadChannels(cfg)[2])
    IN [op |-> "forward", batch |-> batch, seq_len |-> seq_len,
        logits |-> y.shape, dep |-> y.dep,
        splits |-> r.splits, concats |-> r.concats,
        pos |-> PosIndices(cfg, seq_len), pos_rows |-> PosEmbRows(cfg)]

\* Transformer.forward on token ids of shape (B, S)
TransformerForwardT(cfg, mask, batch, seq_len, p) ==
    LET tok == [shape |-> EmbeddingShape(<<batch, seq_len>>, cfg.embedding_dim),
                dep |-> {<<t, t>> : t \in 1..seq_len}]
        pos == [shape |-> EmbeddingLookupShape(PosShape(cfg, seq_len),
                              PosIndices(cfg, seq_len), PosEmbRows(cfg),
                              cfg.embedding_dim),
                dep |-> {}]
    IN The({TransformerHeadT(cfg, r, batch, seq_len) : r \in
              {BlocksForwardT(BlockModule(cfg, mask), AddT(tok, pos), p, cfg.n_blocks)}})

NoFwdCfg == [variant |-> "s", n_embeddings |-> 2, embedding_dim |-> 1, n_heads |-> 1,
             n_blocks |-> 0, max_seq_len |-> 1, maskKind |-> "none", dropout_p |-> 0]

FwdIdle ==
    /\ f_cfg = NoFwdCfg
    /\ f_mask = MaskNone
    /\ f_out = [op |-> "none"]

\* the parameters the constructors create, and the one both layers end up with
ParamIds == {"token_emb.w", "lm_head.w"}

\* Transformer.__init__: `self.lm_head.w = self.token_emb.w  # weight sharing`
LmHeadWUntied(token_emb_w, own_w) == own_w
LmHeadW(token_emb_w, own_w) == token_emb_w

NoLast == [op |-> "none", ok |-> TRUE]

\* MultiHeadAttention state after construction: empty attn_w list, empty function
\* cache, no backward closure, no projection called yet
NewMha == [attn_w |-> <<>>, cache |-> <<>>, backward |-> <<>>, proj_calls |-> 0]

LifeIdle ==
    /\ m_cfg = [variant |-> "s", dropout_p |-> 0, retain |-> FALSE]
    /\ m_training = FALSE
    /\ m_tok_w = "token_emb.w"
    /\ m_head_w = "token_emb.w"
    /\ m_grad = [q \in ParamIds |-> 0]
    /\ m_val = [q \in ParamIds |-> 0]
    /\ m_tback = <<>>
    /\ m_lib = <<>>
    /\ m_mha = <<>>
    /\ m_pending = 0
    /\ m_calls = 0
    /\ m_last = NoLast

NoPosCfg == [max_seq_len |-> 1, embedding_dim |-> 1]

PosIdle ==
    /\ p_cfg = NoPosCfg
    /\ p_pc = "idle"
    /\ p_table = <<>>
    /\ p_err = "none"
    /\ p_out = [op |-> "none"]

NoCall == [op |-> "none", prev |-> "none", mode |-> "inference", step |-> 0,
           accum_step |-> 0, pairs |-> 0, grads |-> 0]

TrainIdle ==
    /\ t_cfg = [script |-> "plain", max_steps |-> 0, grad_accumulation_steps |-> 1,
                val_interval |-> 1, batches |-> 1, val_batches |-> 1]
    /\ t_pc = "idle"
    /\ t_step = 0
    /\ t_accum_step = 0
    /\ t_batch = 0
    /\ t_val_batch = 0
    /\ t_mode = "inference"
    /\ t_updates = 0
    /\ t_pairs = 0
    /\ t_grads = 0
    /\ t_last = NoCall

(***************************************************************************)
(* Construction.                                                           *)
(***************************************************************************)
CtorTargets == {"MultiHeadAttention", "TransformerBlock", "Transformer"}

NoCfg == [variant |-> "s", target |-> "MultiHeadAttention",
          in_channels |-> 1, n_heads |-> 1, n_blocks |-> 0]

CtorIdle ==
    /\ c_cfg = NoCfg
    /\ c_stack = <<>>
    /\ c_pc = "idle"
    /\ c_blk = 0
    /\ c_objs = {}
    /\ c_err = "none"
    /\ c_ret = "none"

\* the `if in_channels % n_heads != 0` of MultiHeadAttention.__init__
MhaCheckNoRaise(in_channels, n_heads) == FALSE
MhaCheckFails(in_channels, n_heads) == in_channels % n_heads # 0

\* state a MultiHeadAttention owns once its constructor has run
MhaFields(v) ==
    IF v = "s" THEN {"n_heads", "mask", "dropout_p", "attn_w"}
               ELSE {"n_heads", "mask", "dropout_p", "dtype"}
MhaProjections == {"query", "key", "value", "out_proj"}

Top(s) == s[Len(s)]
Pop(s) == SubSeq(s, 1, Len(s) - 1)

\* block index of the block under construction (0: no enclosing Transformer)
CurBlk == IF "Transformer" \in {c_stack[i] : i \in DOMAIN c_stack} THEN c_blk + 1 ELSE 0

MhaObjs(b) == {o \in c_objs : o[1] = b /\ o[2] = "attn"}

\* a frame returns: to its caller, or out of the constructor call
Return(frame, nextpc) ==
    /\ c_stack' = Pop(c_stack)
    /\ IF Len(c_stack) = 1
          THEN c_pc' = "done" /\ c_ret' = frame
          ELSE c_pc' = nextpc /\ c_ret' = c_ret

CtorCall(v, tgt, e, h, n) ==
    /\ c_pc = "idle"
    /\ c_cfg' = [variant |-> v, target |-> tgt, in_channels |-> e, n_heads |-> h,
                 n_blocks |-> n]
    /\ c_stack' = <<tgt>>
    /\ c_pc' = CASE tgt = "Transformer" -> "emb"
                 [] tgt = "TransformerBlock" -> "ln_1"
                 [] OTHER -> "check"
    /\ UNCHANGED <<c_blk, c_objs, c_err, c_ret>>
    /\ UNCHANGED ctorRest

\* Transformer.__init__: token and positional embedding
TransformerInitEmbeddings ==
    /\ c_pc = "emb" /\ Top(c_stack) = "Transformer"
    /\ c_objs' = c_objs \cup {<<0, "token_emb", "w">>, <<0, "pos_emb", "w">>}
    /\ c_pc' = "blocks"
    /\ UNCHANGED <<c_cfg, c_stack, c_blk, c_err, c_ret>>
    /\ UNCHANGED ctorRest

\* Transformer.__init__: the next TransformerBlock(**block_kwargs), or the head
TransformerInitBlocks ==
    /\ c_pc = "blocks" /\ Top(c_stack) = "Transformer"
    /\ IF c_blk < c_cfg.n_blocks
          THEN c_stack' = Append(c_stack, "TransformerBlock") /\ c_pc' = "ln_1"
          ELSE c_stack' = c_stack /\ c_pc' = "head"
    /\ UNCHANGED <<c_cfg, c_blk, c_objs, c_err, c_ret>>
    /\ UNCHANGED ctorRest

\* TransformerBlock.__init__: the first layer norm, then MultiHeadAttention(...)
BlockInitLn1 ==
    /\ c_pc = "ln_1" /\ Top(c_stack) = "TransformerBlock"
    /\ c_objs' = c_objs \cup {<<CurBlk, "ln_1", "w">>}
    /\ c_stack' = Append(c_stack, "MultiHeadAttention")
    /\ c_pc' = "check"
    /\ UNCHANGED <<c_cfg, c_blk, c_err, c_ret>>
    /\ UNCHANGED ctorRest

\* MultiHeadAttention.__init__: the divisibility check, its first statement
MhaInitCheck ==
    /\ c_pc = "check" /\ Top(c_stack) = "MultiHeadAttention"
    /\ IF MhaCheckFails(c_cfg.in_channels, c_cfg.n_heads)
          THEN c_err' = "ValueError" /\ c_pc' = "raise"
          ELSE c_err' = c_err /\ c_pc' = "fields"
    /\ UNCHANGED <<c_cfg, c_stack, c_blk, c_objs, c_ret>>
    /\ UNCHANGED ctorRest

\* MultiHeadAttention.__init__: n_heads, mask, dropout_p, attn_w / dtype
MhaInitFields ==
    /\ c_pc = "fields" /\ Top(c_stack) = "MultiHeadAttention"
    /\ c_objs' = c_objs \cup {<<CurBlk, "attn", f>> : f \in MhaFields(c_cfg.variant)}
    /\ c_pc' = "proj"
    /\ UNCHANGED <<c_cfg, c_stack, c_blk, c_err, c_ret>>
    /\ UNCHANGED ctorRest

\* MultiHeadAttention.__init__: the four projections; the constructor returns
MhaInitProjections ==
    /\ c_pc = "proj" /\ Top(c_stack) = "MultiHeadAttention"
    /\ c_objs' = c_objs \cup {<<CurBlk, "attn", f>> : f \in MhaProjections}
    /\ Return("MultiHeadAttention", "rest")
    /\ UNCHANGED <<c_cfg, c_blk, c_err>>
    /\ UNCHANGED ctorRest

\* TransformerBlock.__init__: what follows the attention module
BlockInitRest ==
    /\ c_pc = "rest" /\ Top(c_stack) = "TransformerBlock"
    /\ c_objs' = c_objs \cup
          {<<CurBlk, m, "w">> : m \in {"dropout_1", "ln_2", "ffwd", "dropout_2"}}
    /\ Return("TransformerBlock", "blocks")
    /\ c_blk' = IF Len(c_stack) = 1 THEN c_blk ELSE c_blk + 1
    /\ UNCHANGED <<c_cfg, c_err>>
    /\ UNCHANGED ctorRest

\* Transformer.__init__: final layer norm and the weight-tied head
TransformerInitHead ==
    /\ c_pc = "head" /\ Top(c_stack) = "Transformer"
    /\ c_objs' = c_objs \cup {<<0, "ln", "w">>, <<0, "lm_head", "w">>}
    /\ Return("Transformer", "done")
    /\ UNCHANGED <<c_cfg, c_blk, c_err>>
    /\ UNCHANGED ctorRest

\* no __init__ of the file catches: the exception leaves one frame after another
CtorUnwind ==
    /\ c_pc = "raise"
    /\ c_stack # <<>>
    /\ c_stack' = Pop(c_stack)
    /\ c_pc' = IF Len(c_stack) = 1 THEN "failed" ELSE "raise"
    /\ UNCHANGED <<c_cfg, c_blk, c_objs, c_err, c_ret>>
    /\ UNCHANGED ctorRest

\* the caller drops what the call left behind and may construct again
CtorDiscard ==
    /\ c_pc \in {"done", "failed"}
    /\ c_cfg' = NoCfg
    /\ c_stack' = <<>>
    /\ c_pc' = "idle"
    /\ c_blk' = 0
    /\ c_objs' = {}
    /\ c_err' = "none"
    /\ c_ret' = "none"
    /\ UNCHANGED ctorRest

InitCtor == CtorIdle /\ FwdIdle /\ LifeIdle /\ PosIdle /\ TrainIdle

NextCtor ==
    \/ \E v \in Variants, tgt \in CtorTargets, e \in 1..MaxChannels,
          h \in 1..MaxHeads, n \in 0..MaxBlocks : CtorCall(v, tgt, e, h, n)
    \/ TransformerInitEmbeddings
    \/ TransformerInitBlocks
    \/ BlockInitLn1
    \/ MhaInitCheck
    \/ MhaInitFields
    \/ MhaInitProjections
    \/ BlockInitRest
    \/ TransformerInitHead
    \/ CtorUnwind
    \/ CtorDiscard

SpecCtor == InitCtor /\ [][NextCtor]_vars

\* block index of the MultiHeadAttention whose check raised
FailBlk == IF c_cfg.target = "Transformer" THEN c_blk + 1 ELSE 0

\* a MultiHeadAttention is part of what the call constructs
BuildsMha == c_cfg.target # "Transformer" \/ c_cfg.n_blocks > 0

\* C1: a MultiHeadAttention whose in_channels is not divisible by n_heads raises
\* ValueError before any of its state exists, the error leaves every enclosing
\* constructor so that nothing is returned, and a divisible configuration never
\* raises it.
C1_DivisibilityError ==
    /\ (c_err = "ValueError" =>
           /\ c_cfg.in_channels % c_cfg.n_heads # 0
           /\ MhaObjs(FailBlk) = {}
           /\ c_ret = "none")
    /\ (c_pc \in {"fields", "proj"} => c_cfg.in_channels % c_cfg.n_heads = 0)
    /\ (c_ret # "none" /\ BuildsMha => c_cfg.in_channels % c_cfg.n_heads = 0)
    /\ (c_cfg.in_channels % c_cfg.n_heads = 0 => c_err = "none")
    /\ (c_pc = "failed" => c_ret = "none" /\ c_stack = <<>>)

\* the error has left a Transformer constructor that had already built its
\* embeddings and the first block's layer norm
C1_Witness ==
    /\ c_pc = "failed"
    /\ c_err = "ValueError"
    /\ c_cfg.target = "Transformer"
    /\ <<0, "token_emb", "w">> \in c_objs
    /\ <<1, "ln_1", "w">> \in c_objs

(***************************************************************************)
(* One forward pass in detail.                                             *)
(***************************************************************************)
MaskKinds == {"none", "causal", "zeros", "hidden1"}
DropoutPs == {0, 2}

\* causal, with the first position hidden from every later one
HiddenFirstMask(m) ==
    [i \in 1..m |-> [j \in 1..m |->
        IF j - i >= 1 \/ (j = 1 /\ i > 1) THEN NegInf ELSE 0]]

\* the mask argument of the constructor
MakeMask(kind, m) ==
    CASE kind = "causal" -> GetCausalMask(m)
      [] kind = "zeros" -> ZerosMask(m)
      [] kind = "hidden1" -> HiddenFirstMask(m)
      [] OTHER -> MaskNone

\* configurations whose construction succeeds
FwdConfigs ==
    {cfg \in [variant : Variants, n_embeddings : {2, VocabSize},
              embedding_dim : 1..MaxChannels, n_heads : 1..MaxHeads,
              n_blocks : 0..MaxBlocks, max_seq_len : 1..MaxSeq,
              maskKind : MaskKinds, dropout_p : DropoutPs] :
        cfg.n_blocks = 0 \/ ~MhaCheckFails(cfg.embedding_dim, cfg.n_heads)}

InitFwd ==
    /\ CtorIdle
    /\ LifeIdle
    /\ PosIdle
    /\ TrainIdle
    /\ f_cfg \in FwdConfigs
    /\ f_mask = MhaMask(f_cfg.variant, MakeMask(f_cfg.maskKind, f_cfg.max_seq_len))
    /\ f_out = [op |-> "none"]

\* model(x) on token ids of shape (batch, seq_len)
TransformerForward(batch, seq_len, p) ==
    /\ f_out.op = "none"
    /\ f_out' = TransformerForwardT(f_cfg, f_mask, batch, seq_len, p)
    /\ UNCHANGED <<f_cfg, f_mask, fwdRest>>

\* sdp_attention(q, k, v, mask) on one head of shape (batch, seq_len, head_size),
\* with the mask as the caller passes it
SdpForward(batch, seq_len, head_size, p) ==
    LET mask == MakeMask(f_cfg.maskKind, f_cfg.max_seq_len)
        x == [shape |-> <<batch, seq_len, head_size>>,
              dep |-> {<<t, t>> : t \in 1..seq_len}]
    IN /\ f_out.op = "none"
       /\ f_out' \in {[op |-> "sdp", seq_len |-> seq_len, y |-> r.shape,
                        pre |-> r.pre, post |-> r.post, mask |-> mask] :
                          r \in {SdpAttention(x, x, x, mask, p)}}
       /\ UNCHANGED <<f_cfg, f_mask, fwdRest>>

\* the caller is done with the result of the call
FwdDiscard ==
    /\ f_out.op # "none"
    /\ f_out' = [op |-> "none"]
    /\ UNCHANGED <<f_cfg, f_mask, fwdRest>>

NextFwd ==
    \/ \E b \in 1..MaxBatch, sl \in 1..MaxSeq, p \in ScorePatterns :
          TransformerForward(b, sl, p)
    \/ \E sl \in 1..MaxSeq, p \in ScorePatterns : SdpForward(1, sl, 1, p)
    \/ FwdDiscard

SpecFwd == InitFwd /\ [][NextFwd]_vars

\* C2: with the causal mask of get_causal_mask supplied at construction and a
\* sequence no longer than the maximum, the output at position t depends on
\* no input position after t.
C2_CausalMasking ==
    (/\ f_out.op = "forward"
     /\ f_cfg.maskKind = "causal"
     /\ f_out.seq_len <= f_cfg.max_seq_len
     /\ f_out.logits # BadShape)
    => \A d \in f_out.dep : d[2] <= d[1]

\* a forward through masked multi-head blocks in which every position does
\* depend on all the positions before it
C2_Witness ==
    /\ f_out.op = "forward"
    /\ f_cfg.variant = "s"
    /\ f_cfg.maskKind = "causal"
    /\ f_cfg.n_blocks >= 1
    /\ f_cfg.n_heads >= 2
    /\ f_out.seq_len >= 2
    /\ f_out.logits # BadShape
    /\ f_out.dep = {d \in (1..f_out.seq_len) \X (1..f_out.seq_len) : d[2] <= d[1]}

\* C5: in variant "s", for a batch size B, a sequence length S <= max_seq_len
\* and embedding_dim divisible by n_heads, forward returns logits of shape
\* (B, S, n_embeddings); every block splits into n_heads chunks of width
\* embedding_dim / n_heads and the concatenation has width embedding_dim again.
C5_LogitsShape ==
    (/\ f_out.op = "forward"
     /\ f_cfg.variant = "s"
     /\ f_out.seq_len <= f_cfg.max_seq_len
     /\ f_cfg.embedding_dim % f_cfg.n_heads = 0)
    => /\ f_out.logits = <<f_out.batch, f_out.seq_len, f_cfg.n_embeddings>>
       /\ Len(f_out.splits) = f_cfg.n_blocks
       /\ Len(f_out.concats) = f_cfg.n_blocks
       /\ \A b \in 1..f_cfg.n_blocks :
            /\ Len(f_out.splits[b]) = f_cfg.n_heads
            /\ \A h \in 1..f_cfg.n_heads :
                  f_out.splits[b][h] =
                     <<f_out.batch, f_out.seq_len, f_cfg.embedding_dim \div f_cfg.n_heads>>
            /\ f_out.concats[b] = <<f_out.batch, f_out.seq_len, f_cfg.embedding_dim>>

\* logits of a batch of two sequences through two blocks of two heads
C5_Witness ==
    /\ f_out.op = "forward"
    /\ f_cfg.variant = "s"
    /\ f_cfg.n_blocks = 2
    /\ f_cfg.n_heads = 2
    /\ f_cfg.embedding_dim = 4
    /\ f_out.batch = 2
    /\ f_out.seq_len = 2
    /\ f_cfg.max_seq_len = 3
    /\ f_out.logits = <<2, 2, f_cfg.n_embeddings>>

\* C11: for a sequence length S with 1 <= S <= the configured maximum, forward
\* looks up exactly the positions 0..S-1, each of them a row of the positional
\* embedding table, and the table has one row per position up to the maximum
\* sequence length, whatever the vocabulary size.
C11_PositionLookup ==
    (f_out.op = "forward" /\ f_out.seq_len <= f_cfg.max_seq_len)
    => /\ f_out.pos = 0..(f_out.seq_len - 1)
       /\ \A i \in f_out.pos : i < f_out.pos_rows
       /\ f_out.pos_rows = f_cfg.max_seq_len

\* C10: with a mask of shape (M, M) and a sequence length S <= M the attention
\* function does not raise, the score at (i, j) becomes score + mask[i][j] for
\* all i, j in the leading S x S block, and the mask is left as it was.
C10_MaskLeadingBlock ==
    /\ f_mask = MhaMask(f_cfg.variant, MakeMask(f_cfg.maskKind, f_cfg.max_seq_len))
    /\ (/\ f_out.op = "sdp"
        /\ f_out.mask # MaskNone
        /\ f_out.seq_len <= Len(f_out.mask))
       => /\ f_out.y # BadShape
          /\ \A i, j \in 1..f_out.seq_len :
                f_out.post[i][j] = AddInf(f_out.pre[i][j], f_out.mask[i][j])
          /\ f_out.mask = MakeMask(f_cfg.maskKind, f_cfg.max_seq_len)

\* a mask wider than the sequence, its leading block differing from its
\* trailing one
C10_Witness ==
    /\ f_out.op = "sdp"
    /\ f_cfg.maskKind = "hidden1"
    /\ Len(f_out.mask) = 3
    /\ f_out.seq_len = 2
    /\ f_out.y # BadShape
    /\ f_out.pre[2][1] # NegInf
    /\ f_out.post[2][1] = NegInf
    /\ f_out.post[2][2] = f_out.pre[2][2]


(***************************************************************************)
(* The life of one constructed model: mode switches, forward and backward  *)
(* calls, optimizer steps.  Every forward and backward call gets the next  *)
(* call number as its id, so that stored backward state names the forward  *)
(* call that made it.                                                       *)
(***************************************************************************)

Contribs == {1, 2}
Ranks == {2, 3, 4}

\* MultiHeadAttention.forward: the dropout probability handed to the attention
\* function
SdpDropoutPAlways(dropout_p, training) == dropout_p
SdpDropoutP(dropout_p, training) == IF training THEN dropout_p ELSE 0

\* the attention function drops attention weights only for a positive probability
DropoutApplied(p) == p > 0

\* scaled_dot_product_attention returns a gradient function only when asked to,
\* and MultiHeadAttention asks for it with its training flag
ReturnsGradFn(variant, training) == variant = "c" /\ training

\* the random masks dropout can draw; 0 stands for "no mask drawn"
DropoutDraws(applied) == IF applied THEN {1, 2} ELSE {0}

\* per head: what was handed to the attention function and what it did
MhaHeads(cfg, training) ==
    [h \in 1..LifeHeads |->
        [p |-> SdpDropoutP(cfg.dropout_p, training),
         applied |-> DropoutApplied(SdpDropoutP(cfg.dropout_p, training)),
         grad_fn |-> ReturnsGradFn(cfg.variant, training)]]

\* the function cache keeps what is written to it only while gradients are wanted
CacheStores(training) == training

\* FSDPAttention.forward writes, per head: softmax's entry, dropout's entry, then
\* its own q, k, v, attn_w
CacheKinds == <<"softmax", "dropout", "attn">>
HeadEntries(id, n_heads) ==
    [k \in 1..(3 * n_heads) |->
        [fwd |-> id, head |-> ((k - 1) \div 3) + 1, kind |-> CacheKinds[((k - 1) % 3) + 1]]]

\* what MultiHeadAttention.forward appends to self.attn_w for one head
AttnWEntryKept(retain, id, h) == [fwd |-> id, head |-> h, kept |-> TRUE]
AttnWEntry(retain, id, h) == [fwd |-> id, head |-> h, kept |-> retain]

\* the state of one MultiHeadAttention after a forward call on a rank-3 input
MhaForwardState(m, cfg, training, id) ==
    IF cfg.variant = "s"
    THEN [m EXCEPT !.proj_calls = @ + 4,
                   !.cache = IF CacheStores(training)
                             THEN @ \o HeadEntries(id, LifeHeads) ELSE @,
                   !.attn_w = @ \o [h \in 1..LifeHeads |-> AttnWEntry(cfg.retain, id, h)]]
    ELSE [m EXCEPT !.proj_calls = @ + 4,
                   !.backward = IF training THEN <<[fwd |-> id]>> ELSE @]

\* Transformer.forward, variant "c": `self._backward = _backward`
TransformerClosure(variant, old, id) == IF variant = "c" THEN <<[fwd |-> id]>> ELSE old

\* forward state of the library layers around the blocks (embeddings, layer norm,
\* lm_head): a stack of cache entries in variant "s", one closure in variant "c"
LibForward(variant, lib, training, id) ==
    IF variant = "s"
    THEN (IF CacheStores(training) THEN Append(lib, id) ELSE lib)
    ELSE (IF training THEN <<id>> ELSE lib)

\* a layer's backward adds its parameter's gradient to the parameter's buffer
Accumulate(grad, q, g) == [grad EXCEPT ![q] = @ + g]

\* the parameters the optimizer was built over: model.get_parameters()
GetParameters == {m_tok_w, m_head_w}

\* FSDPAttention.backward reads back the three entries of each head, last first
MhaCanBackward(m, variant) ==
    IF variant = "s" THEN Len(m.cache) >= 3 * LifeHeads ELSE m.backward # <<>>
MhaBackwardStateClearing(m, variant) ==
    IF variant = "s"
    THEN [m EXCEPT !.cache = SubSeq(@, 1, Len(@) - 3 * LifeHeads), !.attn_w = <<>>]
    ELSE m
MhaBackwardState(m, variant) ==
    IF variant = "s"
    THEN [m EXCEPT !.cache = SubSeq(@, 1, Len(@) - 3 * LifeHeads)]
    ELSE m

\* MultiHeadAttention.backward: the chunk of the split output gradient that the
\* k-th head backward call receives
BackwardChunks(variant, n) == [k \in 1..n |-> IF variant = "s" THEN n - k + 1 ELSE k]

\* FSDPAttention.backward: the cache entries it asks for, in this order
BackwardReadsAsWritten == <<"softmax", "dropout", "attn">>
BackwardReads == <<"attn", "dropout", "softmax">>

\* a read of the function cache after n earlier reads: the entry written last
\* among those not read yet
CacheRead(cache, n) == cache[Len(cache) - n]

\* the k-th head backward call: the chunk it receives, the head and the forward
\* call whose state it works on, and what it reads from the cache
HeadCall(m, variant, k) ==
    IF variant = "s"
    THEN LET reads == [r \in 1..Len(BackwardReads) |->
                          [asked |-> BackwardReads[r],
                           got |-> CacheRead(m.cache, 3 * (k - 1) + (r - 1))]]
         IN [chunk |-> BackwardChunks(variant, LifeHeads)[k],
             state |-> reads[1].got.head, fwd |-> reads[1].got.fwd, reads |-> reads]
    ELSE [chunk |-> BackwardChunks(variant, LifeHeads)[k],
          state |-> k, fwd |-> m.backward[1].fwd, reads |-> <<>>]

\* concat of the per-head gradients: which call's result lands in chunk j
MergeOrderUnreversed(variant, n) == [j \in 1..n |-> j]
MergeOrder(variant, n) == [j \in 1..n |-> IF variant = "s" THEN n - j + 1 ELSE j]

\* MultiHeadAttention.backward: the head backward calls in the order made, and
\* for every chunk of dq, dk, dv the head whose gradient it holds
NoMhaTrace == [calls |-> <<>>, merged |-> <<>>]
MhaBackwardTrace(m, variant) ==
    [calls |-> [k \in 1..LifeHeads |-> HeadCall(m, variant, k)],
     merged |-> [j \in 1..LifeHeads |->
                    HeadCall(m, variant, MergeOrder(variant, LifeHeads)[j]).state]]

\* backward of a container of modules (Sequential, Residual): the modules'
\* backward rules in the reverse of the forward order
Reverse(seq) == [i \in 1..Len(seq) |-> seq[Len(seq) - i + 1]]

\* TransformerBlock.forward: the two residual sums in the order computed; each
\* adds to its input (0: the block's input, k: the result of sum k) what the
\* modules of `through` make of it, applied left to right.  Variant "c" has no
\* dropout module of its own in the block.
BlockForwardSteps(variant) ==
    IF variant = "s"
    THEN <<[incoming |-> 0, shortcut |-> TRUE, through |-> <<"ln_1", "attn", "dropout_1">>],
           [incoming |-> 1, shortcut |-> TRUE, through |-> <<"ln_2", "ffwd", "dropout_2">>]>>
    ELSE <<[incoming |-> 0, shortcut |-> TRUE, through |-> <<"ln_1", "attn">>],
           [incoming |-> 1, shortcut |-> TRUE, through |-> <<"ln_2", "ffwd">>]>>

\* TransformerBlock.backward: the same for the gradient (0: the gradient the
\* block is handed, k: the result of step k)
BlockBackwardStepsAttnFirst(variant) ==
    <<[incoming |-> 0, shortcut |-> TRUE, through |-> <<"dropout_1", "attn", "ln_1">>],
      [incoming |-> 1, shortcut |-> TRUE, through |-> <<"dropout_2", "ffwd", "ln_2">>]>>
BlockBackwardSteps(variant) ==
    IF variant = "s"
    THEN <<[incoming |-> 0, shortcut |-> TRUE, through |-> <<"dropout_2", "ffwd", "ln_2">>],
           [incoming |-> 1, shortcut |-> TRUE, through |-> <<"dropout_1", "attn", "ln_1">>]>>
    ELSE [k \in 1..2 |->
            [incoming |-> k - 1, shortcut |-> TRUE,
             through |-> Reverse(Reverse(BlockForwardSteps(variant))[k].through)]]

\* FeedForward: the modules its forward applies, in order (variant "c" calls
\* them lin, act, out_proj, drop), and the modules whose backward rules its
\* backward applies, in order
FfwdForward(variant, dropout_p) ==
    IF variant = "s" THEN <<"up_proj", "act", "down_proj">>
    ELSE IF dropout_p > 0 THEN <<"up_proj", "act", "down_proj">> \o <<"dropout">>
    ELSE <<>>
FfwdBackward(variant, dropout_p) ==
    IF variant = "s" THEN <<"down_proj", "act", "up_proj">>
    ELSE Reverse(FfwdForward(variant, dropout_p))

\* Transformer.backward: the block whose backward is the k-th to run
BackwardBlockOrderForward(n) == [k \in 1..n |-> k]
BackwardBlockOrder(n) == [k \in 1..n |-> n - k + 1]

\* the axes of the gradient handed to pos_emb.backward: dy.sum(axis=0) in
\* variant "s", dy itself in variant "c"
GradAxes == <<"B", "S", "E">>
PosEmbGradAxes(variant) == IF variant = "s" THEN <<"S", "E">> ELSE GradAxes

\* Transformer.backward: the backward calls in the order made; for each the
\* module called, the module whose result it is handed and that gradient's axes
TransformerBackwardCalls(variant, n) ==
    LET order == BackwardBlockOrder(n)
        last == IF n = 0 THEN <<"ln", 0>> ELSE <<"block", order[n]>>
    IN <<[module |-> <<"lm_head", 0>>, from |-> <<"loss", 0>>, axes |-> <<"B", "S", "V">>],
         [module |-> <<"ln", 0>>, from |-> <<"lm_head", 0>>, axes |-> GradAxes]>>
       \o [k \in 1..n |->
             [module |-> <<"block", order[k]>>,
              from |-> IF k = 1 THEN <<"ln", 0>> ELSE <<"block", order[k - 1]>>,
              axes |-> GradAxes]]
       \o <<[module |-> <<"token_emb", 0>>, from |-> last, axes |-> GradAxes],
            [module |-> <<"pos_emb", 0>>, from |-> last,
             axes |-> PosEmbGradAxes(variant)]>>

\* the blocks a backward call gets through, going from the last block down
BlocksReached ==
    {b \in 1..LifeBlocks :
        \A c \in (b + 1)..LifeBlocks : MhaCanBackward(m_mha[c], m_cfg.variant)}
BlocksDone == {b \in BlocksReached : MhaCanBackward(m_mha[b], m_cfg.variant)}

\* Module.backward of variant "c" calls the closure the last forward installed
HasClosure == m_cfg.variant = "s" \/ m_tback # <<>>
LibCanBackward == m_lib # <<>>
LibBackward(variant, lib) == IF variant = "s" THEN SubSeq(lib, 1, Len(lib) - 1) ELSE lib

InitLife ==
    /\ CtorIdle
    /\ FwdIdle
    /\ PosIdle
    /\ TrainIdle
    /\ \E v \in Variants, p \in DropoutPs, r \in BOOLEAN, t \in BOOLEAN :
        /\ m_cfg = [variant |-> v, dropout_p |-> p, retain |-> (v = "s" /\ r)]
        /\ m_training = (v = "c" /\ t)
    /\ m_tok_w = "token_emb.w"
    /\ m_head_w = LmHeadW(m_tok_w, "lm_head.w")
    /\ m_grad = [q \in ParamIds |-> 0]
    /\ m_val = [q \in ParamIds |-> 0]
    /\ m_tback = <<>>
    /\ m_lib = <<>>
    /\ m_mha = [b \in 1..LifeBlocks |-> NewMha]
    /\ m_pending = 0
    /\ m_calls = 0
    /\ m_last = NoLast

\* model.training()
SetTraining ==
    /\ ~m_training
    /\ m_training' = TRUE
    /\ UNCHANGED <<m_cfg, m_tok_w, m_head_w, m_grad, m_val, m_tback, m_lib, m_mha,
                   m_pending, m_calls, m_last>>
    /\ UNCHANGED lifeRest

\* model.inference()
SetInference ==
    /\ m_training
    /\ m_training' = FALSE
    /\ UNCHANGED <<m_cfg, m_tok_w, m_head_w, m_grad, m_val, m_tback, m_lib, m_mha,
                   m_pending, m_calls, m_last>>
    /\ UNCHANGED lifeRest

\* model(x) on a batch of token ids
Forward(z) ==
    /\ m_calls < MaxCalls
    /\ z \in DropoutDraws(MhaHeads(m_cfg, m_training)[1].applied)
    /\ m_calls' = m_calls + 1
    /\ m_mha' = [b \in 1..LifeBlocks |->
                    MhaForwardState(m_mha[b], m_cfg, m_training, m_calls + 1)]
    /\ m_lib' = LibForward(m_cfg.variant, m_lib, m_training, m_calls + 1)
    /\ m_tback' = TransformerClosure(m_cfg.variant, m_tback, m_calls + 1)
    /\ m_pending' = IF m_training THEN m_calls + 1 ELSE 0
    /\ m_last' = [op |-> "forward", ok |-> TRUE, fwd |-> m_calls + 1,
                  training |-> m_training, noise |-> z,
                  heads |-> [b \in 1..LifeBlocks |-> MhaHeads(m_cfg, m_training)],
                  block_steps |-> BlockForwardSteps(m_cfg.variant),
                  ffwd |-> FfwdForward(m_cfg.variant, m_cfg.dropout_p)]
    /\ UNCHANGED <<m_cfg, m_training, m_tok_w, m_head_w, m_grad, m_val>>
    /\ UNCHANGED lifeRest

\* block.attn(x) called directly on a tensor of the given rank
MhaForward(b, rank, z) ==
    /\ m_calls < MaxCalls
    /\ m_calls' = m_calls + 1
    /\ IF rank \in MhaRanks
       THEN /\ z \in DropoutDraws(MhaHeads(m_cfg, m_training)[1].applied)
            /\ m_mha' = [m_mha EXCEPT
                            ![b] = MhaForwardState(@, m_cfg, m_training, m_calls + 1)]
            /\ m_last' = [op |-> "mha_forward", ok |-> TRUE, fwd |-> m_calls + 1,
                          training |-> m_training, noise |-> z, rank |-> rank,
                          block |-> b, heads |-> <<MhaHeads(m_cfg, m_training)>>]
       ELSE /\ z = 0
            /\ m_mha' = m_mha
            /\ m_last' = [op |-> "mha_forward", ok |-> FALSE, fwd |-> m_calls + 1,
                          training |-> m_training, noise |-> z, rank |-> rank,
                          block |-> b, heads |-> <<>>]
    /\ UNCHANGED <<m_cfg, m_training, m_tok_w, m_head_w, m_grad, m_val, m_tback, m_lib,
                   m_pending>>
    /\ UNCHANGED lifeRest

\* model.backward(dy); g_head and g_emb are the gradients lm_head and token_emb
\* compute for their weight
Backward(g_head, g_emb) ==
    /\ m_calls < MaxCalls
    /\ m_calls' = m_calls + 1
    /\ m_pending' = 0
    /\ IF ~(HasClosure /\ LibCanBackward)
       THEN /\ UNCHANGED <<m_grad, m_lib, m_mha>>
            /\ m_last' = [op |-> "backward", ok |-> FALSE, pending |-> m_pending,
                          g_head |-> g_head, g_emb |-> g_emb,
                          mha |-> [b \in 1..LifeBlocks |-> NoMhaTrace],
                          order |-> <<>>, block_steps |-> <<>>, ffwd |-> <<>>,
                          zero_before |-> \A q \in ParamIds : m_grad[q] = 0]
       ELSE /\ m_lib' = LibBackward(m_cfg.variant, m_lib)
            /\ m_mha' = [b \in 1..LifeBlocks |->
                            IF b \in BlocksDone
                            THEN MhaBackwardState(m_mha[b], m_cfg.variant)
                            ELSE m_mha[b]]
            /\ m_grad' = IF BlocksDone = 1..LifeBlocks
                         THEN Accumulate(Accumulate(m_grad, m_head_w, g_head),
                                         m_tok_w, g_emb)
                         ELSE Accumulate(m_grad, m_head_w, g_head)
            /\ m_last' = [op |-> "backward", ok |-> BlocksDone = 1..LifeBlocks,
                          pending |-> m_pending,
                          g_head |-> g_head, g_emb |-> g_emb,
                          mha |-> [b \in 1..LifeBlocks |->
                                     IF b \in BlocksDone
                                     THEN MhaBackwardTrace(m_mha[b], m_cfg.variant)
                                     ELSE NoMhaTrace],
                          order |-> IF BlocksDone = 1..LifeBlocks
                                    THEN TransformerBackwardCalls(m_cfg.variant, LifeBlocks)
                                    ELSE SubSeq(TransformerBackwardCalls(m_cfg.variant, LifeBlocks),
                                                1, 2 + Cardinality(BlocksDone)),
                          block_steps |-> BlockBackwardSteps(m_cfg.variant),
                          ffwd |-> FfwdBackward(m_cfg.variant, m_cfg.dropout_p),
                          zero_before |-> \A q \in ParamIds : m_grad[q] = 0]
    /\ UNCHANGED <<m_cfg, m_training, m_tok_w, m_head_w, m_val, m_tback>>
    /\ UNCHANGED lifeRest

\* optim.step(): every parameter is updated in place
OptimStep ==
    /\ \A q \in GetParameters : m_val[q] < MaxSteps
    /\ m_val' = [q \in ParamIds |-> IF q \in GetParameters THEN m_val[q] + 1 ELSE m_val[q]]
    /\ m_last' = [op |-> "step", ok |-> TRUE]
    /\ UNCHANGED <<m_cfg, m_training, m_tok_w, m_head_w, m_grad, m_tback, m_lib, m_mha,
                   m_pending, m_calls>>
    /\ UNCHANGED lifeRest

\* optim.reset_grads()
ResetGrads ==
    /\ m_last.op # "reset_grads"
    /\ m_grad' = [q \in ParamIds |-> IF q \in GetParameters THEN 0 ELSE m_grad[q]]
    /\ m_last' = [op |-> "reset_grads", ok |-> TRUE]
    /\ UNCHANGED <<m_cfg, m_training, m_tok_w, m_head_w, m_val, m_tback, m_lib, m_mha,
                   m_pending, m_calls>>
    /\ UNCHANGED lifeRest

Init == InitLife

Next ==
    \/ SetTraining
    \/ SetInference
    \/ \E z \in 0..2 : Forward(z)
    \/ \E b \in 1..LifeBlocks, rank \in Ranks, z \in 0..2 : MhaForward(b, rank, z)
    \/ \E g_head \in Contribs, g_emb \in Contribs : Backward(g_head, g_emb)
    \/ OptimStep
    \/ ResetGrads

Spec == Init /\ [][Next]_vars

(***************************************************************************)
(* Properties of the life of a model.                                       *)
(***************************************************************************)

\* C3: after a forward and a completed Transformer.backward that started from
\* zeroed gradients, the gradient on the shared embedding/head weight is the sum of
\* the contribution of lm_head.backward and the contribution of
\* token_emb.backward: the later one is added to the earlier one.
C3_SharedGradSum ==
    (m_last.op = "backward" /\ m_last.ok /\ m_last.zero_before)
    => /\ m_grad[m_tok_w] = m_last.g_head + m_last.g_emb
       /\ m_grad[m_head_w] = m_last.g_head + m_last.g_emb

C3_Witness ==
    /\ m_last.op = "backward" /\ m_last.ok /\ m_last.zero_before
    /\ m_last.g_head = 1 /\ m_last.g_emb = 2
    /\ m_grad[m_tok_w] = 3

\* C4: in every state reached by forward, backward, optimizer step and gradient
\* reset calls, lm_head.w and token_emb.w are the same parameter: one value, one
\* gradient buffer, never replaced on one side only.
C4_WeightTying ==
    /\ m_head_w = m_tok_w
    /\ m_grad[m_head_w] = m_grad[m_tok_w]
    /\ m_val[m_head_w] = m_val[m_tok_w]

C4_Witness ==
    /\ m_last.op = "step"
    /\ m_head_w = m_tok_w
    /\ m_val[m_tok_w] > 0
    /\ m_grad[m_head_w] > 0

\* C6: after a forward call made in inference mode the model holds no backward
\* state: no backward closure on the Transformer or on any MultiHeadAttention, no
\* gradient function returned by the attention function, no cache entry, and
\* nothing left over from an earlier training-mode forward.
C6_InferenceStoresNothing ==
    (m_last.op = "forward" /\ ~m_last.training)
    => /\ m_tback = <<>>
       /\ \A b \in 1..LifeBlocks :
            /\ m_mha[b].backward = <<>>
            /\ m_mha[b].cache = <<>>
            /\ \A h \in 1..LifeHeads : ~m_last.heads[b][h].grad_fn

\* C7: in MultiHeadAttention.forward, dropout is applied to a head's attention
\* weights iff the module is in training mode and dropout_p > 0; in inference mode
\* the probability passed to the attention function is 0 for every head and no
\* random mask is drawn, so the output is a function of the input alone.
C7_AttentionDropout ==
    (m_last.op \in {"forward", "mha_forward"} /\ m_last.ok)
    => /\ \A b \in 1..Len(m_last.heads) : \A h \in 1..LifeHeads :
            /\ m_last.heads[b][h].applied <=> (m_last.training /\ m_cfg.dropout_p > 0)
            /\ ~m_last.training => m_last.heads[b][h].p = 0
       /\ ~m_last.training => m_last.noise = 0

C7_Witness ==
    /\ m_last.op = "forward" /\ m_last.ok
    /\ ~m_last.training
    /\ m_cfg.dropout_p > 0
    /\ m_last.heads[LifeBlocks][LifeHeads].p = 0
    /\ m_last.noise = 0

\* C8: a backward call with no matching forward (none made yet, the last forward
\* already consumed by a backward, or the last forward made in inference mode)
\* fails with an error.
C8_BackwardNeedsForward ==
    (m_last.op = "backward" /\ m_last.pending = 0) => ~m_last.ok

\* the blocks whose MultiHeadAttention the last forward call ran through
BlocksOfLast ==
    IF m_last.op = "forward" THEN 1..LifeBlocks
    ELSE IF m_last.op = "mha_forward" /\ m_last.ok THEN {m_last.block}
    ELSE {}

\* what the last forward call appended to the attn_w list of block b
AttnWOfLast(b) ==
    {k \in DOMAIN m_mha[b].attn_w : m_mha[b].attn_w[k].fwd = m_last.fwd}

\* C14: a forward of MultiHeadAttention records one attn_w entry per head, and
\* the entry holds the head's attention weights only if value retention was
\* requested; otherwise every entry recorded for the call is None.
C14_AttnWeightRetention ==
    (m_cfg.variant = "s" /\ m_last.op \in {"forward", "mha_forward"} /\ m_last.ok)
    => \A b \in BlocksOfLast :
          /\ Cardinality(AttnWOfLast(b)) = LifeHeads
          /\ \A k \in AttnWOfLast(b) : m_mha[b].attn_w[k].kept <=> m_cfg.retain

C14_Witness ==
    /\ m_cfg.variant = "s" /\ ~m_cfg.retain
    /\ m_last.op = "forward" /\ m_last.ok
    /\ Cardinality(AttnWOfLast(LifeBlocks)) = LifeHeads
    /\ \A k \in AttnWOfLast(LifeBlocks) : ~m_mha[LifeBlocks].attn_w[k].kept

\* C15 as stated: in MultiHeadAttention.backward the head backward rules run in
\* the reverse of the forward order (last head first), head i's backward gets
\* chunk i of the split output gradient and the state head i's forward left, and
\* dq, dk, dv hold head i's gradient in chunk i.
C15_HeadsReversed ==
    (m_last.op = "backward" /\ m_last.ok)
    => \A b \in 1..LifeBlocks : \A k \in 1..LifeHeads :
          /\ m_last.mha[b].calls[k].state = LifeHeads - k + 1
          /\ m_last.mha[b].calls[k].chunk = m_last.mha[b].calls[k].state
          /\ m_last.mha[b].merged[k] = k

\* C15, amended: the head backward rules run last head first where the heads
\* share a cache (variant "s") and first head first where each head has its own
\* gradient function (variant "c"); in both, head i's backward gets chunk i and
\* the state of head i's forward, and dq, dk, dv hold head i's gradient in chunk i.
C15_HeadOrder ==
    (m_last.op = "backward" /\ m_last.ok)
    => \A b \in 1..LifeBlocks : \A k \in 1..LifeHeads :
          /\ m_last.mha[b].calls[k].state =
                (IF m_cfg.variant = "s" THEN LifeHeads - k + 1 ELSE k)
          /\ m_last.mha[b].calls[k].chunk = m_last.mha[b].calls[k].state
          /\ m_last.mha[b].merged[k] = k

C15_Witness ==
    /\ m_last.op = "backward" /\ m_last.ok /\ m_last.pending # 0
    /\ m_cfg.variant = "s"
    /\ m_last.mha[1].calls[1].state = LifeHeads
    /\ m_last.mha[1].calls[1].chunk = LifeHeads
    /\ m_last.mha[1].calls[LifeHeads].state = 1
    /\ m_last.mha[1].merged[1] = 1

\* C16: the cache the heads of a MultiHeadAttention share is used as a stack.
\* A training-mode forward writes per head, first head first, the softmax
\* entry, the dropout entry (whatever dropout_p is) and the attention entry; the
\* matching backward reads them back in the reverse order, each entry once, and
\* leaves no entry of that forward in the cache.
C16_CacheStack ==
    /\ (m_cfg.variant = "s" /\ m_last.op = "forward" /\ m_last.training)
       => \A b \in 1..LifeBlocks : \A h \in 1..LifeHeads :
            LET base == Len(m_mha[b].cache) - 3 * LifeHeads + 3 * (h - 1)
            IN /\ m_mha[b].cache[base + 1] = [fwd |-> m_last.fwd, head |-> h, kind |-> "softmax"]
               /\ m_mha[b].cache[base + 2] = [fwd |-> m_last.fwd, head |-> h, kind |-> "dropout"]
               /\ m_mha[b].cache[base + 3] = [fwd |-> m_last.fwd, head |-> h, kind |-> "attn"]
    /\ (m_cfg.variant = "s" /\ m_last.op = "backward" /\ m_last.ok)
       => \A b \in 1..LifeBlocks :
            LET pair == m_last.mha[b].calls[1].fwd
            IN /\ \A k \in 1..LifeHeads :
                    /\ Len(m_last.mha[b].calls[k].reads) = 3
                    /\ \A r \in 1..3 :
                         /\ m_last.mha[b].calls[k].reads[r].asked =
                               <<"attn", "dropout", "softmax">>[r]
                         /\ m_last.mha[b].calls[k].reads[r].got =
                               [fwd |-> pair, head |-> LifeHeads - k + 1,
                                kind |-> <<"attn", "dropout", "softmax">>[r]]
               /\ \A i \in DOMAIN m_mha[b].cache : m_mha[b].cache[i].fwd # pair

C16_Witness ==
    /\ m_cfg.variant = "s" /\ m_cfg.dropout_p = 0
    /\ m_last.op = "backward" /\ m_last.ok
    /\ m_last.mha[LifeBlocks].calls[1].fwd = m_last.pending
    /\ m_last.mha[LifeBlocks].calls[1].reads[1].got.kind = "attn"
    /\ m_last.mha[LifeBlocks].calls[LifeHeads].reads[3].got =
          [fwd |-> m_last.pending, head |-> 1, kind |-> "softmax"]
    /\ m_mha[LifeBlocks].cache = <<>>

\* C17: Transformer.backward runs lm_head's backward first, then the final layer
\* norm's, then the blocks' from the last to the first, each block getting the
\* gradient the block after it returned, and last the two embeddings', token
\* embedding before positional embedding.
C17_BackwardOrder ==
    (m_last.op = "backward" /\ m_last.ok)
    => /\ Len(m_last.order) = LifeBlocks + 4
       /\ m_last.order[1].module = <<"lm_head", 0>>
       /\ m_last.order[2].module = <<"ln", 0>>
       /\ m_last.order[2].from = <<"lm_head", 0>>
       /\ \A k \in 1..LifeBlocks :
            /\ m_last.order[2 + k].module = <<"block", LifeBlocks - k + 1>>
            /\ m_last.order[2 + k].from =
                  (IF k = 1 THEN <<"ln", 0>> ELSE <<"block", LifeBlocks - k + 2>>)
       /\ m_last.order[LifeBlocks + 3].module = <<"token_emb", 0>>
       /\ m_last.order[LifeBlocks + 4].module = <<"pos_emb", 0>>
       /\ m_last.order[LifeBlocks + 3].from = m_last.order[LifeBlocks + 2].module
       /\ m_last.order[LifeBlocks + 4].from = m_last.order[LifeBlocks + 2].module

C17_Witness ==
    /\ m_last.op = "backward" /\ m_last.ok /\ m_last.pending # 0
    /\ m_last.order[3].module = <<"block", LifeBlocks>>
    /\ m_last.order[LifeBlocks + 2].module = <<"block", 1>>
    /\ m_last.order[LifeBlocks + 4].module = <<"pos_emb", 0>>

\* C18: in both variants the positional embedding's backward gets the gradient
\* summed over the batch axis, of shape (S, E), and the token embedding's
\* backward gets the gradient as it is, of shape (B, S, E).
C18_PosGradSummed ==
    (m_last.op = "backward" /\ m_last.ok)
    => /\ m_last.order[LifeBlocks + 3].axes = <<"B", "S", "E">>
       /\ m_last.order[LifeBlocks + 4].axes = <<"S", "E">>

\* a module of a block other than its dropout modules
NotDropout(name) == name \notin {"dropout_1", "dropout_2", "dropout"}

\* C19: a block's forward computes x1 = x + Dropout1(Attn(LN1(x))) and then
\* y = x1 + Dropout2(FFwd(LN2(x1))); its backward undoes the feed-forward sum
\* first and the attention sum second, each returning the incoming gradient
\* plus that gradient taken through dropout, sub-block and layer norm, the
\* second working on the result of the first.  Where the block has no dropout
\* module of its own (variant "c") the dropout is the sub-block's.
C19_BlockResiduals ==
    /\ m_last.op = "forward"
       => /\ Len(m_last.block_steps) = 2
          /\ \A k \in 1..2 : /\ m_last.block_steps[k].incoming = k - 1
                             /\ m_last.block_steps[k].shortcut
          /\ SelectSeq(m_last.block_steps[1].through, NotDropout) = <<"ln_1", "attn">>
          /\ SelectSeq(m_last.block_steps[2].through, NotDropout) = <<"ln_2", "ffwd">>
          /\ m_cfg.variant = "s"
             => /\ m_last.block_steps[1].through = <<"ln_1", "attn", "dropout_1">>
                /\ m_last.block_steps[2].through = <<"ln_2", "ffwd", "dropout_2">>
    /\ (m_last.op = "backward" /\ m_last.ok)
       => /\ Len(m_last.block_steps) = 2
          /\ \A k \in 1..2 : /\ m_last.block_steps[k].incoming = k - 1
                             /\ m_last.block_steps[k].shortcut
          /\ SelectSeq(m_last.block_steps[1].through, NotDropout) = <<"ffwd", "ln_2">>
          /\ SelectSeq(m_last.block_steps[2].through, NotDropout) = <<"attn", "ln_1">>
          /\ m_cfg.variant = "s"
             => /\ m_last.block_steps[1].through = <<"dropout_2", "ffwd", "ln_2">>
                /\ m_last.block_steps[2].through = <<"dropout_1", "attn", "ln_1">>

C19_Witness ==
    /\ m_cfg.variant = "s"
    /\ m_last.op = "backward" /\ m_last.ok /\ m_last.pending # 0
    /\ m_last.block_steps[1].through[2] = "ffwd"
    /\ m_last.block_steps[2].through[2] = "attn"
    /\ m_last.block_steps[2].incoming = 1

\* C20: in both variants and for every dropout_p, 0 included, FeedForward's
\* forward applies the up-projection, the nonlinearity and the down-projection,
\* in this order and each once, and its backward applies their backward rules
\* in the reverse order.
C20_FfwdOrder ==
    /\ m_last.op = "forward"
       => SelectSeq(m_last.ffwd, NotDropout) = <<"up_proj", "act", "down_proj">>
    /\ (m_last.op = "backward" /\ m_last.ok)
       => SelectSeq(m_last.ffwd, NotDropout) = <<"down_proj", "act", "up_proj">>

\* the forward calls a MultiHeadAttention has completed: each runs the three
\* input projections and the output projection once
MhaForwardCalls(m) == m.proj_calls \div 4

\* C21: every MultiHeadAttention.forward appends n_heads entries to attn_w and
\* nothing ever removes one: after k forward calls, in any mode and with or
\* without backward calls in between, the list holds k * n_heads entries, the
\* last n_heads being those of the latest call in head order.
C21_AttnWGrows ==
    m_cfg.variant = "s"
    => \A b \in 1..LifeBlocks :
         /\ Len(m_mha[b].attn_w) = MhaForwardCalls(m_mha[b]) * LifeHeads
         /\ \A c \in 1..MhaForwardCalls(m_mha[b]) : \A h \in 1..LifeHeads :
              /\ m_mha[b].attn_w[(c - 1) * LifeHeads + h].head = h
              /\ m_mha[b].attn_w[(c - 1) * LifeHeads + h].fwd =
                    m_mha[b].attn_w[(c - 1) * LifeHeads + 1].fwd
              /\ c > 1 => m_mha[b].attn_w[(c - 1) * LifeHeads + h].fwd >
                             m_mha[b].attn_w[(c - 2) * LifeHeads + h].fwd

C21_Witness ==
    /\ m_cfg.variant = "s"
    /\ m_last.op = "backward" /\ m_last.ok
    /\ MhaForwardCalls(m_mha[1]) = 2
    /\ Len(m_mha[1].attn_w) = 2 * LifeHeads
    /\ m_mha[1].cache # <<>>

\* C9: MultiHeadAttention.forward on an input whose rank is not 3 fails, and
\* leaves the module as it was: no projection called, no cache entry written, no
\* closure installed, attn_w unchanged.
C9_RankCheckFirst ==
    [][(/\ m_calls' = m_calls + 1
        /\ m_last'.op = "mha_forward"
        /\ m_last'.rank # 3)
       => (/\ ~m_last'.ok
           /\ m_mha' = m_mha
           /\ m_grad' = m_grad
           /\ m_tback' = m_tback)]_vars

C9_Witness ==
    /\ m_last.op = "mha_forward" /\ ~m_last.ok
    /\ m_last.rank = 2
    /\ m_mha[m_last.block].proj_calls > 0

(***************************************************************************)
(* PositionalEncoding.  The encodings tensor is kept column by column: what *)
(* a column holds in every row p is fn(p * exp(two_i * -(log(base) / E))),  *)
(* with fn and two_i as recorded, and how many times it was written.        *)
(***************************************************************************)

\* arange(embedding_dim, step=2): 0, 2, 4, ... below embedding_dim
EmbRange(e) == [k \in 1..((e + 1) \div 2) |-> 2 * (k - 1)]

\* the columns the slice [:, start::2] selects
SliceCols(e, start) == [k \in 1..((e - start + 1) \div 2) |-> start + 2 * (k - 1)]

\* tensor[slice] = value: the value's columns must broadcast to the slot's
CanAssign(slot, value) == value = slot \/ value = 1

\* encodings[:, start::2] = fn(positions * div_term)
AssignCols(table, cols, fn, terms) ==
    [c \in DOMAIN table |->
        IF \E k \in DOMAIN cols : cols[k] + 1 = c
        THEN LET k == CHOOSE k \in DOMAIN cols : cols[k] + 1 = c
             IN [fn |-> fn,
                 two_i |-> terms[IF Len(terms) = 1 THEN 1 ELSE k],
                 writes |-> table[c].writes + 1]
        ELSE table[c]]

\* PositionalEncoding(max_seq_len, embedding_dim)
PosCall(m, e) ==
    /\ p_pc = "idle"
    /\ p_cfg' = [max_seq_len |-> m, embedding_dim |-> e]
    /\ p_pc' = "zeros"
    /\ UNCHANGED <<p_table, p_err, p_out>>
    /\ UNCHANGED posRest

\* encodings = zeros((max_seq_len, embedding_dim))
PosInitZeros ==
    /\ p_pc = "zeros"
    /\ p_table' = [c \in 1..p_cfg.embedding_dim |->
                      [fn |-> "zero", two_i |-> 0, writes |-> 0]]
    /\ p_pc' = "sin"
    /\ UNCHANGED <<p_cfg, p_err, p_out>>
    /\ UNCHANGED posRest

\* encodings[:, 0::2] = sin(positions * div_term)
PosInitSin ==
    /\ p_pc = "sin"
    /\ IF CanAssign(Len(SliceCols(p_cfg.embedding_dim, 0)), Len(EmbRange(p_cfg.embedding_dim)))
       THEN /\ p_table' = AssignCols(p_table, SliceCols(p_cfg.embedding_dim, 0), "sin",
                                     EmbRange(p_cfg.embedding_dim))
            /\ p_pc' = "cos"
            /\ UNCHANGED p_err
       ELSE /\ p_pc' = "failed"
            /\ p_err' = "ValueError"
            /\ UNCHANGED p_table
    /\ UNCHANGED <<p_cfg, p_out>>
    /\ UNCHANGED posRest

\* encodings[:, 1::2] = cos(positions * div_term)
PosInitCos ==
    /\ p_pc = "cos"
    /\ IF CanAssign(Len(SliceCols(p_cfg.embedding_dim, 1)), Len(EmbRange(p_cfg.embedding_dim)))
       THEN /\ p_table' = AssignCols(p_table, SliceCols(p_cfg.embedding_dim, 1), "cos",
                                     EmbRange(p_cfg.embedding_dim))
            /\ p_pc' = "buffer"
            /\ UNCHANGED p_err
       ELSE /\ p_pc' = "failed"
            /\ p_err' = "ValueError"
            /\ UNCHANGED p_table
    /\ UNCHANGED <<p_cfg, p_out>>
    /\ UNCHANGED posRest

\* self.encodings = Buffer(encodings); __init__ returns
PosInitBuffer ==
    /\ p_pc = "buffer"
    /\ p_pc' = "built"
    /\ UNCHANGED <<p_cfg, p_table, p_err, p_out>>
    /\ UNCHANGED posRest

\* PositionalEncoding.forward: self.encodings[: x.shape[1]], x of shape xs
PosForward(xs) ==
    /\ p_pc = "built"
    /\ p_out' = [op |-> "forward", x |-> xs, rows |-> Min(xs[2], p_cfg.max_seq_len)]
    /\ UNCHANGED <<p_cfg, p_pc, p_table, p_err>>
    /\ UNCHANGED posRest

\* PositionalEncoding.backward: return dy
PosBackward ==
    /\ p_pc = "built"
    /\ p_out' = [op |-> "backward", x |-> <<>>, rows |-> 0]
    /\ UNCHANGED <<p_cfg, p_pc, p_table, p_err>>
    /\ UNCHANGED posRest

\* the caller drops the module, or what the failed constructor left
PosDiscard ==
    /\ p_pc \in {"built", "failed"}
    /\ p_cfg' = NoPosCfg
    /\ p_pc' = "idle"
    /\ p_table' = <<>>
    /\ p_err' = "none"
    /\ p_out' = [op |-> "none"]
    /\ UNCHANGED posRest

\* inputs of shape (B, S) and (B_1, B_2, S)
PosInputs ==
    {<<b, sl>> : b \in 1..MaxBatch, sl \in 1..MaxSeq}
    \cup {<<b[1], b[2], sl>> : b \in (1..MaxBatch) \X (1..MaxBatch), sl \in 1..MaxSeq}

InitPos == CtorIdle /\ FwdIdle /\ LifeIdle /\ PosIdle /\ TrainIdle

NextPos ==
    \/ \E m \in 1..MaxSeq, e \in 1..MaxChannels : PosCall(m, e)
    \/ PosInitZeros
    \/ PosInitSin
    \/ PosInitCos
    \/ PosInitBuffer
    \/ \E xs \in PosInputs : PosForward(xs)
    \/ PosBackward
    \/ PosDiscard

SpecPos == InitPos /\ [][NextPos]_vars

\* C12: construction succeeds for every max_seq_len >= 1 and embedding_dim >= 1,
\* and leaves a table whose column 2i holds the sine and whose column 2i + 1
\* holds the cosine of p / base^(2i/E), every column written exactly once.
C12_SinusoidTable ==
    /\ p_err = "none"
    /\ p_pc \in {"buffer", "built"} =>
          \A c \in 0..(p_cfg.embedding_dim - 1) :
             /\ p_table[c + 1].fn = (IF c % 2 = 0 THEN "sin" ELSE "cos")
             /\ p_table[c + 1].two_i = c - (c % 2)
             /\ p_table[c + 1].writes = 1

\* C13: forward on an input of shape (B_1, ..., B_n, S) with S <= max_seq_len
\* returns the first S rows of the table, and after any forward or backward call
\* the table is as the constructor wrote it: no column written again.
C13_ForwardSlice ==
    /\ (p_out.op = "forward" /\ p_out.x[Len(p_out.x)] <= p_cfg.max_seq_len)
          => p_out.rows = p_out.x[Len(p_out.x)]
    /\ p_out.op \in {"forward", "backward"} =>
          \A c \in DOMAIN p_table : p_table[c].writes = 1

(***************************************************************************)
(* The training loops.  Loop "plain" updates after every batch; loop       *)
(* "accum" updates after grad_accumulation_steps batches.  Both restart    *)
(* train_dl() whenever it is exhausted and step < max_steps.               *)
(***************************************************************************)

TrainConfigs ==
    [script : {"plain", "accum"}, max_steps : 0..MaxIter, grad_accumulation_steps : 1..MaxAccum,
     val_interval : 1..MaxInterval,
     batches : 1..MaxBatches, val_batches : 1..MaxValBatches]

\* `accum_step += 1` at the top of the loop body: loop "accum" only
AccumNext(script, accum_step) == IF script = "accum" THEN accum_step + 1 ELSE accum_step

\* `if accum_step == grad_accumulation_steps:`; loop "plain" has no such test
StepDueAlways(script, accum_step, steps) == TRUE
StepDue(script, accum_step, steps) == script = "plain" \/ accum_step = steps

\* `if step > 1 and step % val_interval == 0:`
ValidationDueAnyStep(step, val_interval) == step % val_interval = 0
ValidationDue(step, val_interval) == step > 1 /\ step % val_interval = 0

\* a call on the model or the optimizer, with the loop's state when it is made
Call(op) == [op |-> op, prev |-> t_last.op, mode |-> t_mode, step |-> t_step,
             accum_step |-> t_accum_step, pairs |-> t_pairs, grads |-> t_grads]

InitTrain ==
    /\ CtorIdle
    /\ FwdIdle
    /\ LifeIdle
    /\ PosIdle
    /\ t_cfg \in {c \in TrainConfigs :
                    c.script = "plain" => c.grad_accumulation_steps = 1}
    /\ t_pc = "start"
    /\ t_step = 0
    /\ t_accum_step = 0
    /\ t_batch = 0
    /\ t_val_batch = 0
    /\ t_mode = "inference"
    /\ t_updates = 0
    /\ t_pairs = 0
    /\ t_grads = 0
    /\ t_last = NoCall

\* model.training() before the loop
TrainStart ==
    /\ t_pc = "start"
    /\ t_mode' = "training"
    /\ t_last' = Call("training")
    /\ t_pc' = "while"
    /\ UNCHANGED <<t_cfg, t_step, t_accum_step, t_batch, t_updates, t_pairs, t_grads>>
    /\ UNCHANGED t_val_batch
    /\ UNCHANGED trainRest

\* `while step < max_steps:` and the start of `for x, y in train_dl():`
TrainWhile ==
    /\ t_pc = "while"
    /\ IF t_step < t_cfg.max_steps
       THEN t_pc' = "for" /\ t_batch' = 0
       ELSE t_pc' = "done" /\ UNCHANGED t_batch
    /\ UNCHANGED <<t_cfg, t_step, t_accum_step, t_mode, t_updates, t_pairs, t_grads,
                   t_last>>
    /\ UNCHANGED t_val_batch
    /\ UNCHANGED trainRest

\* the next batch of train_dl(), or its end
TrainNextBatch ==
    /\ t_pc = "for"
    /\ IF t_batch < t_cfg.batches
       THEN /\ t_batch' = t_batch + 1
            /\ t_accum_step' = AccumNext(t_cfg.script, t_accum_step)
            /\ t_pc' = "forward"
       ELSE /\ t_pc' = "while"
            /\ UNCHANGED <<t_batch, t_accum_step>>
    /\ UNCHANGED <<t_cfg, t_step, t_mode, t_updates, t_pairs, t_grads, t_last>>
    /\ UNCHANGED t_val_batch
    /\ UNCHANGED trainRest

\* y_pred = model(x)
TrainForward ==
    /\ t_pc = "forward"
    /\ t_last' = Call("forward")
    /\ t_pc' = "backward"
    /\ UNCHANGED <<t_cfg, t_step, t_accum_step, t_batch, t_mode, t_updates, t_pairs,
                   t_grads>>
    /\ UNCHANGED t_val_batch
    /\ UNCHANGED trainRest

\* model.backward(loss_grads), then the test whether to update
TrainBackward ==
    /\ t_pc = "backward"
    /\ t_last' = Call("backward")
    /\ t_pairs' = t_pairs + 1
    /\ t_grads' = t_grads + 1
    /\ t_pc' = IF StepDue(t_cfg.script, t_accum_step, t_cfg.grad_accumulation_steps)
               THEN "step" ELSE "for"
    /\ UNCHANGED <<t_cfg, t_step, t_accum_step, t_batch, t_mode, t_updates>>
    /\ UNCHANGED t_val_batch
    /\ UNCHANGED trainRest

\* optim.step()
TrainOptimStep ==
    /\ t_pc = "step"
    /\ t_last' = Call("step")
    /\ t_updates' = t_updates + 1
    /\ t_pairs' = 0
    /\ t_pc' = "reset_grads"
    /\ UNCHANGED <<t_cfg, t_step, t_accum_step, t_batch, t_mode, t_grads>>
    /\ UNCHANGED t_val_batch
    /\ UNCHANGED trainRest

\* optim.reset_grads(), then the test whether to validate
TrainResetGrads ==
    /\ t_pc = "reset_grads"
    /\ t_last' = Call("reset_grads")
    /\ t_grads' = 0
    /\ t_pc' = IF ValidationDue(t_step, t_cfg.val_interval) THEN "inference"
               ELSE "checkpoint"
    /\ UNCHANGED <<t_cfg, t_step, t_accum_step, t_batch, t_mode, t_updates, t_pairs>>
    /\ UNCHANGED t_val_batch
    /\ UNCHANGED trainRest

\* model.inference() and the start of `for x_val, y_val in val_dl():`
TrainInference ==
    /\ t_pc = "inference"
    /\ t_mode' = "inference"
    /\ t_last' = Call("inference")
    /\ t_val_batch' = 0
    /\ t_pc' = "val_forward"
    /\ UNCHANGED <<t_cfg, t_step, t_accum_step, t_batch, t_updates, t_pairs, t_grads>>
    /\ UNCHANGED trainRest

\* y_pred = model(x_val) for the next batch of val_dl()
TrainValForward ==
    /\ t_pc = "val_forward"
    /\ t_val_batch < t_cfg.val_batches
    /\ t_val_batch' = t_val_batch + 1
    /\ t_last' = Call("val_forward")
    /\ UNCHANGED <<t_cfg, t_pc, t_step, t_accum_step, t_batch, t_mode, t_updates,
                   t_pairs, t_grads>>
    /\ UNCHANGED trainRest

\* model.training() after the last batch of val_dl()
TrainTraining ==
    /\ t_pc = "val_forward"
    /\ t_val_batch = t_cfg.val_batches
    /\ t_mode' = "training"
    /\ t_last' = Call("training")
    /\ t_pc' = "checkpoint"
    /\ UNCHANGED <<t_cfg, t_step, t_accum_step, t_batch, t_updates, t_pairs, t_grads>>
    /\ UNCHANGED t_val_batch
    /\ UNCHANGED trainRest

\* the checkpoint (it reads the model and the optimizer only), `if step ==
\* max_steps: break`, `step += 1` and `loss = accum_step = 0`
TrainStepEnd ==
    /\ t_pc = "checkpoint"
    /\ IF t_step = t_cfg.max_steps
       THEN /\ t_pc' = "done"
            /\ UNCHANGED <<t_step, t_accum_step>>
       ELSE /\ t_step' = t_step + 1
            /\ t_accum_step' = 0
            /\ t_pc' = "for"
    /\ UNCHANGED <<t_cfg, t_batch, t_mode, t_updates, t_pairs, t_grads, t_last>>
    /\ UNCHANGED t_val_batch
    /\ UNCHANGED trainRest

NextTrain ==
    \/ TrainStart
    \/ TrainWhile
    \/ TrainNextBatch
    \/ TrainForward
    \/ TrainBackward
    \/ TrainOptimStep
    \/ TrainResetGrads
    \/ TrainInference
    \/ TrainValForward
    \/ TrainTraining
    \/ TrainStepEnd

SpecTrain == InitTrain /\ [][NextTrain]_vars

\* C22: loop "accum" calls optim.step() only after exactly
\* grad_accumulation_steps forward/backward pairs since the previous step (or
\* the start); optim.reset_grads() is the call right after every optim.step();
\* the gradients are not reset between the backward calls of one window; and
\* accum_step is 0 when a window starts.  Loop "plain" is the case of one pair.
C22_AccumulationWindow ==
    /\ t_last.op = "step"
       => /\ t_last.pairs = t_cfg.grad_accumulation_steps
          /\ t_last.grads = t_cfg.grad_accumulation_steps
          /\ t_last.prev = "backward"
    /\ t_last.op = "reset_grads" <=> t_last.prev = "step"
    /\ t_pc = "reset_grads" <=> t_last.op = "step"
    /\ t_last.op = "backward" => t_last.grads = t_last.pairs
    /\ (t_last.op = "forward" /\ t_last.pairs = 0)
       => t_last.accum_step = AccumNext(t_cfg.script, 0)

C22_Witness ==
    /\ t_cfg.script = "accum"
    /\ t_cfg.grad_accumulation_steps = 2
    /\ t_last.op = "reset_grads"
    /\ t_updates = 2
    /\ t_step = 1
    /\ t_grads = 0

\* C23: started with step = 0, the step counter never exceeds max_steps and
\* when the loop has ended exactly max_steps optimizer updates have been made,
\* wherever in an epoch max_steps is reached.
C23_ExactUpdates ==
    /\ t_step <= t_cfg.max_steps
    /\ t_pc = "done" => t_updates = t_cfg.max_steps

\* C24: every forward pass that model.backward follows runs in training mode;
\* a validation phase switches to inference mode, makes forward passes only and
\* switches back to training mode before the next training forward; it runs
\* only at steps with step > 1 and step % val_interval = 0.
C24_ValidationPhase ==
    /\ t_last.op \in {"forward", "backward", "step", "reset_grads"}
       => t_last.mode = "training"
    /\ t_last.op = "backward" => t_last.prev = "forward"
    /\ t_last.op = "inference"
       => /\ t_last.prev = "reset_grads"
          /\ t_last.step > 1
          /\ t_last.step % t_cfg.val_interval = 0
    /\ t_last.op = "val_forward"
       => /\ t_last.mode = "inference"
          /\ t_last.prev \in {"inference", "val_forward"}
          /\ t_last.step > 1
          /\ t_last.step % t_cfg.val_interval = 0
    /\ t_last.prev \in {"inference", "val_forward"}
       => t_last.op \in {"val_forward", "training"}
    /\ (t_last.op = "training" /\ t_last.prev # "none") => t_mode = "training"

C24_Witness ==
    /\ t_last.op = "backward"
    /\ t_last.mode = "training"
    /\ t_last.step = 3
    /\ t_cfg.val_interval = 2
    /\ t_cfg.val_batches = 2
    /\ t_updates = 3

====
